---- MODULE Spec2Model ----
(***************************************************************************)
(* Model of static/main.js, the client-side controller of the site-visit   *)
(* report form: the pending-items store and its rendered list, the         *)
(* add-item handler with its concurrent photo reads, and the submission    *)
(* handler with its two timer-deferred downloads.                          *)
(*                                                                         *)
(* The browser runs one task at a time.  Each action below is one task     *)
(* (an event handler or a timer callback) together with the promise        *)
(* reactions (microtasks) it makes runnable, which the event loop runs     *)
(* before any other task.                                                  *)
(***************************************************************************)
EXTENDS Integers, Sequences, FiniteSets, Bags, TLC

\* ------------------------------------------------------------------ bounds
MaxAdds == 2        \* clicks on the add-item button
MaxFiles == 2       \* files selected in the photo input of one click
MaxSubmits == 2     \* submit actions

\* ------------------------------------------------------------- JS values
\* JavaScript's undefined / null / missing property.  A template literal
\* prints it as the text "undefined".
undefined == "undefined"

\* A read that has not fired onload / onerror yet, and one that fired onerror.
pending == "pending"
readError == "error"

AllFiles == <<"A", "B", "C", "D">>

\* photoInput.files at a click: no file, or the first MaxFiles files
FileLists == { <<>>, SubSeq(AllFiles, 1, MaxFiles) }

\* the values of the item inputs at a click: two complete forms, and forms
\* that miss one or all of the required selections
Forms ==
    { [asset |-> "Pump", system |-> "HVAC", description |-> "Leak",
       quantity |-> "2", brand |-> "", comments |-> ""],
      [asset |-> "Fan", system |-> "HVAC", description |-> "Noise",
       quantity |-> "", brand |-> "Acme", comments |-> "urgent"],
      [asset |-> "", system |-> "HVAC", description |-> "Leak",
       quantity |-> "2", brand |-> "", comments |-> ""],
      [asset |-> "Pump", system |-> "", description |-> "Leak",
       quantity |-> "2", brand |-> "", comments |-> ""],
      [asset |-> "Pump", system |-> "HVAC", description |-> "",
       quantity |-> "0", brand |-> "", comments |-> ""],
      [asset |-> "", system |-> "", description |-> "",
       quantity |-> "", brand |-> "", comments |-> ""] }

\* the page the script is loaded into: which of the elements the script
\* looks up and guards against missing exist, and where #emptyListMessage is
\* (inList: a child of #pendingItemsList; elsewhere; absent).  The complete
\* page, and the pages that differ from it in one element.
FullPage ==
    [ customAlertModal |-> TRUE,
      pendingItemsList |-> TRUE,
      techSignaturePad |-> TRUE,
      addItemButton    |-> TRUE,
      emptyListMessage |-> "inList" ]

Pages ==
    { FullPage,
      [FullPage EXCEPT !.emptyListMessage = "elsewhere"],
      [FullPage EXCEPT !.emptyListMessage = "absent"],
      [FullPage EXCEPT !.pendingItemsList = FALSE],
      [FullPage EXCEPT !.customAlertModal = FALSE],
      [FullPage EXCEPT !.techSignaturePad = FALSE],
      [FullPage EXCEPT !.addItemButton = FALSE] }

VARIABLES
    page,            \* the static scaffold of the document (never changes)
    loaded,          \* DOMContentLoaded has fired
    techPad,         \* window.techPad: undefined or "SignaturePad"
    techPadIsEmpty,  \* what window.techPad.isEmpty() answers
    pendingItems,    \* window.pendingItems
    list,            \* #pendingItemsList and #emptyListMessage:
                     \*   emptyMessage: inList, elsewhere, detached, absent
                     \*   emptyDisplay: its style.display
                     \*   rows: the .report-item children, in order
    adds,            \* the add-item operations whose Promise.all was created
    addClicks,       \* clicks on the add-item button so far
    alerts,          \* modal: content of #customAlertModal once shown;
                     \* calls: the bag of calls of window.showNotification
    submits,         \* the submit actions so far: state, the request while it is
                     \* in flight, the error it was rejected with
    statusText,      \* #status textContent
    alertClasses,    \* #submission-alert classList (the alert-* classes)
    alertText,       \* #submission-alert textContent
    downloads        \* body: temporary anchors in document.body, in order;
                     \* timers: pending setTimeout(.., 0) callbacks, first first;
                     \* clicked: anchors activated so far, in order

vars == <<page, loaded, techPad, techPadIsEmpty, pendingItems, list, adds,
          addClicks, alerts, submits, statusText, alertClasses, alertText,
          downloads>>

\* --------------------------------------------------------------- helpers
\* parseInt of a non-negative decimal numeral; NaN for anything else the
\* model feeds it (the empty string).
NaN == -1
MaxNumeral == 9
parseInt(s) ==
    IF \E n \in 0..MaxNumeral : ToString(n) = s
    THEN CHOOSE n \in 0..MaxNumeral : ToString(n) = s
    ELSE NaN

\* a || b on numbers: NaN and 0 are falsy
numberOr(a, b) == IF a = NaN \/ a = 0 THEN b ELSE a

\* a || b on strings: undefined and "" are falsy
stringOr(a, b) == IF a = undefined \/ a = "" THEN b ELSE a

\* Array.prototype.splice(start, 1) for start >= 0: removes the element at
\* 0-based position start when there is one, else nothing
splice(items, start) ==
    IF start < Len(items)
    THEN SubSeq(items, 1, start) \o SubSeq(items, start + 2, Len(items))
    ELSE items

\* FileReader.readAsDataURL: reader.result for a file that loads
fileToBase64(file) == "data:image/png;base64," \o file

\* --------------------------------------------------------- notification
iconBorder(type) ==
    CASE type = "success" -> "border-success"
      [] type = "error"   -> "border-danger"
      [] type = "warning" -> "border-warning"
      [] OTHER            -> "border-info"

\* window.showNotification(type, title, _): nothing when the modal is absent
showNotification(a, type, title) ==
    [ modal |-> IF page.customAlertModal
                THEN [shown |-> TRUE, title |-> title, border |-> iconBorder(type)]
                ELSE a.modal,
      calls |-> a.calls (+) SetToBag({[type |-> type, title |-> title]}) ]

\* ---------------------------------------------------------------- render
row(index, item) == [dataIndex |-> ToString(index), item |-> item]

\* window.renderPendingItems().  document.getElementById finds an element
\* only while it is in the document: once innerHTML = '' has removed
\* #emptyListMessage from the list and the non-empty branch has not put it
\* back, the next lookup returns null.
renderPendingItems(l, items) ==
    IF ~page.pendingItemsList \/ l.emptyMessage \notin {"inList", "elsewhere"}
    THEN l
    ELSE IF Len(items) = 0
         THEN [emptyMessage |-> "inList", emptyDisplay |-> "block", rows |-> <<>>]
         ELSE [emptyMessage |-> IF l.emptyMessage = "inList" THEN "detached"
                                ELSE l.emptyMessage,
               emptyDisplay |-> "none",
               rows |-> [i \in 1..Len(items) |-> row(i - 1, items[i])]]

\* ------------------------------------------------------------ add item
\* mutant: the description is not checked
missingFieldsButDescription(asset, system, description) ==
    asset = "" \/ system = ""

\* the "Simple validation" of handleAddItem: !asset || !system || !description
missingFields(asset, system, description) ==
    asset = "" \/ system = "" \/ description = ""

\* mutant: the values are collected in the order the reads complete
settleInCompletionOrder(results, j, value) ==
    LET first == CHOOSE k \in 1..Len(results) :
                    /\ results[k] = pending
                    /\ \A m \in 1..(k - 1) : results[m] # pending
    IN [results EXCEPT ![first] = value]

\* Promise.all over the reads: the slot of read j receives its value whatever
\* the order in which the reads complete
settle(results, j, value) == [results EXCEPT ![j] = value]

\* mutant: Promise.allSettled, fulfilled once every read has completed
promiseAllSettled(results) ==
    IF \A j \in 1..Len(results) : results[j] # pending THEN "fulfilled" ELSE pending

\* state of Promise.all(files.map(fileToBase64)) given the reads' results:
\* rejected with the first read that fails, fulfilled once every read loaded
promiseAll(results) ==
    IF \E j \in 1..Len(results) : results[j] = readError THEN "rejected"
    ELSE IF \A j \in 1..Len(results) : results[j] # pending THEN "fulfilled"
    ELSE pending

\* the newItem object of the .then handler
newItem(op, base64Array) ==
    [ asset       |-> op.form.asset,
      system      |-> op.form.system,
      description |-> op.form.description,
      quantity    |-> numberOr(parseInt(op.form.quantity), 1),
      brand       |-> op.form.brand,
      comments    |-> op.form.comments,
      photoFiles  |-> base64Array ]

\* the .then handler of handleAddItem: push, render, (reset the inputs), notify
AddResolved(op, base64Array) ==
    /\ pendingItems' = Append(pendingItems, newItem(op, base64Array))
    /\ list' = renderPendingItems(list, pendingItems')
    /\ alerts' = showNotification(alerts, "success", "Item Added")

\* the .catch handler of handleAddItem
AddRejected ==
    /\ alerts' = showNotification(alerts, "error", "Photo Error")
    /\ UNCHANGED <<pendingItems, list>>

\* the reactions of handleAddItem's promise chain once a read of op has
\* completed (or at once when there are no files), while it is unsettled
AddSettles(op, results) ==
    IF promiseAll(results) = "fulfilled" THEN AddResolved(op, results)
    ELSE IF promiseAll(results) = "rejected" THEN AddRejected
    ELSE UNCHANGED <<pendingItems, list, alerts>>

\* click on #addItemButton with form in the item inputs and files in
\* #photoInput: handleAddItem() up to the creation of the reads, and the
\* reactions of Promise.all([]) when there is no file
handleAddItem(form, files) ==
    /\ loaded
    /\ page.addItemButton
    /\ addClicks < MaxAdds
    /\ addClicks' = addClicks + 1
    /\ IF missingFields(form.asset, form.system, form.description)
       THEN /\ alerts' = showNotification(alerts, "error", "Missing Fields")
            /\ UNCHANGED <<pendingItems, list, adds>>
       ELSE LET op == [ form |-> form, files |-> files,
                        results |-> [j \in 1..Len(files) |-> pending],
                        settled |-> pending ]
            IN /\ adds' = Append(adds, [op EXCEPT !.settled = promiseAll(op.results)])
               /\ AddSettles(op, op.results)
    /\ UNCHANGED <<page, loaded, techPad, techPadIsEmpty, submits, statusText,
                   alertClasses, alertText, downloads>>

ClickAddItem == \E form \in Forms, files \in FileLists : handleAddItem(form, files)

\* the same click when the user attaches no photo
ClickAddItemNoPhotos == \E form \in Forms : handleAddItem(form, <<>>)

\* a FileReader finishes: value is the data URL (onload) or readError (onerror)
ReadCompletes(o, j, value) ==
    LET op == adds[o]
        results == settle(op.results, j, value)
    IN /\ op.results[j] = pending
       /\ IF op.settled = pending
          THEN /\ adds' = [adds EXCEPT ![o].results = results,
                                       ![o].settled = promiseAll(results)]
               /\ AddSettles(op, results)
          ELSE /\ adds' = [adds EXCEPT ![o].results = results]
               /\ UNCHANGED <<pendingItems, list, alerts>>
       /\ UNCHANGED <<page, loaded, techPad, techPadIsEmpty, addClicks, submits,
                      statusText, alertClasses, alertText, downloads>>

\* reader.onload of read j of add operation o
ReadLoads ==
    \E o \in 1..Len(adds) : \E j \in 1..Len(adds[o].files) :
        ReadCompletes(o, j, fileToBase64(adds[o].files[j]))

\* reader.onerror of read j of add operation o
ReadFails ==
    \E o \in 1..Len(adds) : \E j \in 1..Len(adds[o].files) :
        ReadCompletes(o, j, readError)

\* click on the .remove-item-btn of a rendered row
ClickRemove ==
    /\ loaded
    /\ \E r \in 1..Len(list.rows) :
          LET indexToRemove == parseInt(list.rows[r].dataIndex)
          IN /\ pendingItems' = splice(pendingItems, indexToRemove)
             /\ list' = renderPendingItems(list, pendingItems')
    /\ UNCHANGED <<page, loaded, techPad, techPadIsEmpty, adds, addClicks, alerts,
                   submits, statusText, alertClasses, alertText, downloads>>

\* ------------------------------------------------------------ signature
\* the user draws on the technician signature pad
Sign ==
    /\ loaded
    /\ techPad # undefined
    /\ techPadIsEmpty
    /\ techPadIsEmpty' = FALSE
    /\ UNCHANGED <<page, loaded, techPad, pendingItems, list, adds, addClicks,
                   alerts, submits, statusText, alertClasses, alertText, downloads>>

\* --------------------------------------------------------------- submit
ValidationWarning == "Please provide the Technician Signature before submitting."
ProcessingText == "Report is being processed. This may take a moment..."
SuccessText == "Report successfully generated. Downloads are starting automatically!"

\* response.data of a successful response
ResponseData ==
    { [pdf_url |-> "/f.pdf", excel_url |-> "/f.xlsx"],
      [pdf_url |-> undefined, excel_url |-> undefined] }

\* the error a failed axios.post rejects with: error.message always, and
\* error.response / error.response.data / error.response.data.message or not
TransportText == "Network Error"
StatusText == "Request failed with status code 500"
Errors ==
    { [hasResponse |-> FALSE, hasData |-> FALSE, dataMessage |-> undefined,
       message |-> TransportText],
      [hasResponse |-> TRUE, hasData |-> FALSE, dataMessage |-> undefined,
       message |-> StatusText],
      [hasResponse |-> TRUE, hasData |-> TRUE, dataMessage |-> undefined,
       message |-> StatusText],
      [hasResponse |-> TRUE, hasData |-> TRUE, dataMessage |-> "Report generation failed",
       message |-> StatusText] }

\* the `if` of window.onSubmit: the check is made only when window.techPad is set
signatureMissing == techPad # undefined /\ techPadIsEmpty

\* mutant: report_items is window.photoFiles, which nothing ever fills
dataToSendPhotoFiles(items) == [report_items |-> <<>>]

\* dataToSend of window.onSubmit (the form fields and the two signature
\* strings are carried along unread; report_items is the store)
dataToSend(items) == [report_items |-> items]

\* the text the catch handler of window.onSubmit puts in the banner
errorBanner(error) ==
    "Error: "
    \o (IF error.hasResponse /\ error.hasData THEN error.dataMessage ELSE error.message)
    \o ". Check console for details."

\* mutant: the anchor is clicked and removed at once
triggerDownloadAtOnce(d, url, filename, of) ==
    [ body    |-> d.body,
      timers  |-> d.timers,
      clicked |-> Append(d.clicked, [href |-> url, download |-> filename, of |-> of]) ]

\* triggerDownload(url, filename): the anchor joins document.body and its
\* click is left to a zero-delay timer; of is the submission it belongs to
triggerDownload(d, url, filename, of) ==
    LET link == [href |-> url, download |-> filename, of |-> of]
    IN [ body    |-> Append(d.body, link),
         timers  |-> Append(d.timers, link),
         clicked |-> d.clicked ]

\* mutant: the two calls in the other order
triggerBothExcelFirst(d, data, of) ==
    triggerDownload(
        triggerDownload(d, stringOr(data.excel_url, "/download-excel"),
                        "Site_Visit_Report.xlsx", of),
        stringOr(data.pdf_url, "/download-pdf"), "Site_Visit_Report.pdf", of)

\* "Trigger both downloads" of the success handler
triggerBoth(d, data, of) ==
    triggerDownload(
        triggerDownload(d, stringOr(data.pdf_url, "/download-pdf"),
                        "Site_Visit_Report.pdf", of),
        stringOr(data.excel_url, "/download-excel"), "Site_Visit_Report.xlsx", of)

\* window.onSubmit(event) up to the axios.post, which serialises dataToSend
\* before any other task runs (preventDefault and the clearing of
\* #downloadArea, which nothing fills, leave no trace in the state)
Submit ==
    /\ loaded
    /\ Len(submits) < MaxSubmits
    /\ IF signatureMissing
       THEN /\ alertClasses' = (alertClasses \ {"alert-info"}) \cup {"alert-warning"}
            /\ alertText' = ValidationWarning
            /\ submits' = Append(submits, [state |-> "Failed(ValidationError)",
                                           request |-> <<>>, error |-> <<>>])
            /\ UNCHANGED statusText
       ELSE /\ statusText' = "Submitting... Please wait."
            /\ alertClasses' = (alertClasses
                                  \ {"alert-success", "alert-danger", "alert-warning"})
                               \cup {"alert-info"}
            /\ alertText' = ProcessingText
            /\ submits' = Append(submits, [state |-> "Submitting",
                                           request |-> <<dataToSend(pendingItems)>>,
                                           error |-> <<>>])
    /\ UNCHANGED <<page, loaded, techPad, techPadIsEmpty, pendingItems, list, adds,
                   addClicks, alerts, downloads>>

\* the .then handler of the axios.post of submission s
ResponseSuccess ==
    \E s \in 1..Len(submits) : \E data \in ResponseData :
        /\ submits[s].state = "Submitting"
        /\ submits' = [submits EXCEPT ![s].state = "Succeeded", ![s].request = <<>>]
        /\ statusText' = "Submission Successful!"
        /\ alertClasses' = (alertClasses \ {"alert-info"}) \cup {"alert-success"}
        /\ alertText' = SuccessText
        /\ downloads' = triggerBoth(downloads, data, s)
        /\ alerts' = showNotification(alerts, "success", "Reports Generated")
        /\ UNCHANGED <<page, loaded, techPad, techPadIsEmpty, pendingItems, list,
                       adds, addClicks>>

\* the .catch handler of the axios.post of submission s
ResponseError ==
    \E s \in 1..Len(submits) : \E error \in Errors :
        /\ submits[s].state = "Submitting"
        /\ submits' = [submits EXCEPT ![s].state = "Failed", ![s].request = <<>>,
                                    ![s].error = <<error>>]
        /\ statusText' = "Submission Failed!"
        /\ alertClasses' = (alertClasses \ {"alert-info"}) \cup {"alert-danger"}
        /\ alertText' = errorBanner(error)
        /\ alerts' = showNotification(alerts, "error", "Submission Failed")
        /\ UNCHANGED <<page, loaded, techPad, techPadIsEmpty, pendingItems, list,
                       adds, addClicks, downloads>>

\* the oldest zero-delay timer of triggerDownload runs: click, then removeChild
TimerFires ==
    /\ downloads.timers # <<>>
    /\ LET link == Head(downloads.timers)
       IN downloads' =
            [ body    |-> SelectSeq(downloads.body, LAMBDA l : l # link),
              timers  |-> Tail(downloads.timers),
              clicked |-> Append(downloads.clicked, link) ]
    /\ UNCHANGED <<page, loaded, techPad, techPadIsEmpty, pendingItems, list, adds,
                   addClicks, alerts, submits, statusText, alertClasses, alertText>>

\* ----------------------------------------------------------------- load
\* the DOMContentLoaded handler: signature pads, the add-item listener
\* (ClickAddItem is enabled from here on), the initial render
DOMContentLoaded ==
    /\ ~loaded
    /\ loaded' = TRUE
    /\ techPad' = IF page.techSignaturePad THEN "SignaturePad" ELSE undefined
    /\ list' = renderPendingItems(list, pendingItems)
    /\ UNCHANGED <<page, techPadIsEmpty, pendingItems, adds, addClicks, alerts,
                   submits, statusText, alertClasses, alertText, downloads>>

Init ==
    /\ page \in Pages
    /\ loaded = FALSE
    /\ techPad = undefined
    /\ techPadIsEmpty = TRUE
    /\ pendingItems = <<>>
    /\ list = [emptyMessage |-> page.emptyListMessage, emptyDisplay |-> "", rows |-> <<>>]
    /\ adds = <<>>
    /\ addClicks = 0
    /\ alerts = [modal |-> [shown |-> FALSE, title |-> "", border |-> ""], calls |-> EmptyBag]
    /\ submits = <<>>
    /\ statusText = ""
    /\ alertClasses = {"alert-info"}
    /\ alertText = ""
    /\ downloads = [body |-> <<>>, timers |-> <<>>, clicked |-> <<>>]

\* the report-items tab: adding items with photos, removing them
Next ==
    \/ DOMContentLoaded
    \/ ClickAddItem
    \/ ReadLoads
    \/ ReadFails
    \/ ClickRemove

Spec == Init /\ [][Next]_vars

\* the submission tab: signing and submitting a report whose items carry no
\* photos
NextSubmit ==
    \/ DOMContentLoaded
    \/ ClickAddItemNoPhotos
    \/ Sign
    \/ Submit
    \/ ResponseSuccess
    \/ ResponseError
    \/ TimerFires

SubmitSpec == Init /\ [][NextSubmit]_vars

\* ============================================================== claims
MissingFieldsCall == [type |-> "error", title |-> "Missing Fields"]
PhotoErrorCall == [type |-> "error", title |-> "Photo Error"]
ReportsGeneratedCall == [type |-> "success", title |-> "Reports Generated"]
SubmissionFailedCall == [type |-> "error", title |-> "Submission Failed"]

OneMore(call, calls) == calls (+) SetToBag({call})

\* the encodings of files, in the order of the files
Encoded(files) == [j \in 1..Len(files) |-> fileToBase64(files[j])]

\* the reads of an add operation that failed
FailedReads(op) == {j \in 1..Len(op.results) : op.results[j] = readError}

\* add operation o becomes fulfilled in this step
Fulfils(o) ==
    /\ o \in 1..Len(adds')
    /\ adds'[o].settled = "fulfilled"
    /\ (o > Len(adds) \/ adds[o].settled # "fulfilled")

\* C1: an add-item click with asset, system or description empty leaves the
\* store (and the list) as it was, starts no photo read, and calls the error
\* notification once and no other; no stored item ever lacks one of the three.
C1_MissingFieldsLeaveStore ==
    /\ [](\A i \in 1..Len(pendingItems) :
            /\ pendingItems[i].asset # ""
            /\ pendingItems[i].system # ""
            /\ pendingItems[i].description # "")
    /\ [][\A form \in Forms, files \in FileLists :
            (/\ form.asset = "" \/ form.system = "" \/ form.description = ""
             /\ handleAddItem(form, files))
            => /\ pendingItems' = pendingItems
               /\ list' = list
               /\ adds' = adds
               /\ alerts'.calls = OneMore(MissingFieldsCall, alerts.calls)]_vars

\* an incomplete click was rejected while the store holds an item
C1_Witness ==
    /\ BagIn(MissingFieldsCall, alerts.calls)
    /\ Len(pendingItems) = 1
    /\ addClicks = 2

\* C2: once a read of a valid add has failed, whatever the position of the
\* file and the order of the completions, the add appends nothing: the step
\* of the first failure calls the error notification once, every other step
\* of that add calls none, none of them changes the store or the list, and
\* no stored item holds an unfinished or failed photo.
C2_FailedReadAbortsAdd ==
    /\ [](/\ \A i \in 1..Len(pendingItems) :
                \A k \in 1..Len(pendingItems[i].photoFiles) :
                    pendingItems[i].photoFiles[k] \notin {pending, readError}
          /\ CopiesIn(PhotoErrorCall, alerts.calls)
               = Cardinality({o \in 1..Len(adds) : FailedReads(adds[o]) # {}}))
    /\ [][\A o \in 1..Len(adds) :
            (adds'[o] # adds[o] /\ FailedReads(adds'[o]) # {})
            => /\ pendingItems' = pendingItems
               /\ list' = list
               /\ alerts'.calls = IF FailedReads(adds[o]) = {}
                                  THEN OneMore(PhotoErrorCall, alerts.calls)
                                  ELSE alerts.calls]_vars

\* the last file of an add failed after its first file had loaded, with an
\* item of another add in the store
C2_Witness ==
    /\ pendingItems # <<>>
    /\ CopiesIn(PhotoErrorCall, alerts.calls) = 1
    /\ \E o \in 1..Len(adds) :
          /\ Len(adds[o].files) >= 2
          /\ adds[o].results[1] = fileToBase64(adds[o].files[1])
          /\ adds[o].results[Len(adds[o].files)] = readError

\* C8: a valid add whose k reads all load appends, in the step of the last
\* load and not before, one item whose photoFiles are the k encodings in the
\* order of the files, whatever the order in which the reads completed.
C8_PhotosInFileOrder ==
    [][/\ \A o \in 1..Len(adds') :
            /\ (\A j \in 1..Len(adds'[o].files) :
                    adds'[o].results[j] = fileToBase64(adds'[o].files[j]))
               => adds'[o].settled = "fulfilled"
            /\ Fulfils(o)
               => /\ Len(pendingItems') = Len(pendingItems) + 1
                  /\ SubSeq(pendingItems', 1, Len(pendingItems)) = pendingItems
                  /\ pendingItems'[Len(pendingItems')].asset = adds'[o].form.asset
                  /\ Len(pendingItems'[Len(pendingItems')].photoFiles)
                       = Len(adds'[o].files)
                  /\ pendingItems'[Len(pendingItems')].photoFiles
                       = Encoded(adds'[o].files)
       /\ Len(pendingItems') > Len(pendingItems)
          => \E o \in 1..Len(adds') :
                /\ Fulfils(o)
                /\ adds'[o].results = Encoded(adds'[o].files)]_vars

\* an item with at least two photos, in the order of its files, is in the store
C8_Witness ==
    \E o \in 1..Len(adds) : \E i \in 1..Len(pendingItems) :
        /\ adds[o].settled = "fulfilled"
        /\ Len(adds[o].files) >= 2
        /\ pendingItems[i].photoFiles = Encoded(adds[o].files)

\* the rows that show items: row i bound to index i - 1
RowsOf(items) ==
    [i \in 1..Len(items) |-> [dataIndex |-> ToString(i - 1), item |-> items[i]]]

\* items without the element at 0-based position index
WithoutIndex(items, index) ==
    [i \in 1..(Len(items) - 1) |-> IF i <= index THEN items[i] ELSE items[i + 1]]

\* C4: on the complete page, a click on the removal control of a row whose
\* index i is below the length N of the store removes the item at position i
\* and nothing else, and the list then shows the N-1 remaining items in order.
C4_RemoveRendersRemaining ==
    [][(page = FullPage /\ Len(pendingItems') < Len(pendingItems))
       => /\ \E r \in 1..Len(list.rows) :
                pendingItems' = WithoutIndex(pendingItems, parseInt(list.rows[r].dataIndex))
          /\ list'.rows = RowsOf(pendingItems')]_vars

\* C5: on the complete page, once loaded, the list shows exactly the store's
\* items, one row per item in store order with row i bound to index i, and
\* the placeholder message exactly when the store is empty.
C5_ListShowsStore ==
    (loaded /\ page = FullPage)
    => /\ list.rows = RowsOf(pendingItems)
       /\ (pendingItems = <<>>) <=> (list.emptyMessage = "inList" /\ list.emptyDisplay = "block")

\* the download names of the anchors of submission s in a sequence of anchors
NamesOf(links, s) ==
    LET own == SelectSeq(links, LAMBDA l : l.of = s)
    IN [i \in 1..Len(own) |-> own[i].download]

BothNames == <<"Site_Visit_Report.pdf", "Site_Visit_Report.xlsx">>

\* submission s receives its outcome in this step
Succeeds(s) == submits[s].state = "Submitting" /\ submits'[s].state = "Succeeded"
Fails(s) == submits[s].state = "Submitting" /\ submits'[s].state = "Failed"

\* C3: a submit made while the technician signature is empty (no pad, or a
\* pad that reports empty) sends no request: it ends in failed validation
\* with the warning banner, and the store is as before.
C3_NoRequestWithoutSignature ==
    [][(Len(submits') = Len(submits) + 1 /\ (techPad = undefined \/ techPadIsEmpty))
       => /\ submits'[Len(submits')].state = "Failed(ValidationError)"
          /\ submits'[Len(submits')].request = <<>>
          /\ alertText' = ValidationWarning
          /\ "alert-warning" \in alertClasses'
          /\ pendingItems' = pendingItems]_vars

\* C6: a submission that succeeded has its two anchors activated in the
\* order pdf, xlsx, each once: what is activated and what still waits for
\* its timer make up <<pdf, xlsx>>, an activated anchor has left the
\* document (so the xlsx anchor is activated after the pdf anchor was
\* activated and discarded), and no other submission activates anything.
C6_TwoDownloadsInOrder ==
    \A s \in 1..Len(submits) :
        IF submits[s].state = "Succeeded"
        THEN /\ NamesOf(downloads.clicked, s) \o NamesOf(downloads.timers, s) = BothNames
             /\ NamesOf(downloads.body, s) = NamesOf(downloads.timers, s)
        ELSE /\ NamesOf(downloads.clicked, s) = <<>>
             /\ NamesOf(downloads.timers, s) = <<>>
             /\ NamesOf(downloads.body, s) = <<>>

\* both anchors of a succeeded submission were activated and discarded,
\* while another submission is still waiting for its timers
C6_Witness ==
    \E s, t \in 1..Len(submits) :
        /\ NamesOf(downloads.clicked, s) = BothNames
        /\ NamesOf(downloads.body, s) = <<>>
        /\ NamesOf(downloads.timers, t) = BothNames

\* C7: when a submission fails (here on the complete page), the banner
\* shows the message of the error response when it carries one, else the
\* transport error text, and the error notification is called.
C7_FailureBannerText ==
    [][\A s \in 1..Len(submits) :
          (page = FullPage /\ Fails(s))
          => LET error == submits'[s].error[1]
                 shown == IF error.hasResponse /\ error.hasData
                             /\ error.dataMessage # undefined
                          THEN error.dataMessage
                          ELSE error.message
             IN /\ alertText' = "Error: " \o shown \o ". Check console for details."
                /\ alerts'.calls = OneMore(SubmissionFailedCall, alerts.calls)]_vars

\* C9 as stated: the pdf anchor is activated within the success handler, so
\* a submission that has succeeded has its pdf download activated.
C9_PdfActivatedInHandler ==
    \A s \in 1..Len(submits) :
        submits[s].state = "Succeeded"
        => /\ NamesOf(downloads.clicked, s) # <<>>
           /\ NamesOf(downloads.clicked, s)[1] = "Site_Visit_Report.pdf"

\* C9 as amended: the success handler activates nothing: it leaves both
\* anchors, pdf first, to zero-delay timers and calls the success
\* notification; every activation happens in a later step, one anchor per
\* step, that is no part of a response handler.
C9_BothActivationsDeferred ==
    [][/\ \A s \in 1..Len(submits) :
            Succeeds(s)
            => /\ downloads'.clicked = downloads.clicked
               /\ NamesOf(downloads'.timers, s) = BothNames
               /\ alerts'.calls = OneMore(ReportsGeneratedCall, alerts.calls)
       /\ downloads'.clicked # downloads.clicked
          => /\ Len(downloads'.clicked) = Len(downloads.clicked) + 1
             /\ submits' = submits
             /\ alerts' = alerts]_vars

\* the success handler has run and notified, and nothing is activated yet
C9_Witness ==
    /\ \E s \in 1..Len(submits) : submits[s].state = "Succeeded"
    /\ BagIn(ReportsGeneratedCall, alerts.calls)
    /\ downloads.clicked = <<>>
    /\ Len(downloads.timers) = 2

\* C10: no step of a submission (the submit, its response, a download
\* timer) changes the store or the list, and the request sent carries the
\* whole store as it is at the submit.
C10_SubmissionKeepsStore ==
    [][(submits' # submits \/ downloads' # downloads)
       => /\ pendingItems' = pendingItems
          /\ list' = list
          /\ (Len(submits') = Len(submits) + 1
              /\ submits'[Len(submits')].state = "Submitting")
             => submits'[Len(submits')].request = <<[report_items |-> pendingItems]>>]_vars

\* one submission succeeded and one failed, and the store still holds two items
C10_Witness ==
    /\ Len(pendingItems) = 2
    /\ \E s, t \in 1..Len(submits) :
          /\ submits[s].state = "Succeeded"
          /\ submits[t].state = "Failed"

====
